---------------------------- MODULE Spec2Model ----------------------------
(***************************************************************************)
(* Model of the Jan-Sahayak dialogue controller: the useVoiceAssistant     *)
(* hook (the ref-based variant in src/src/components/AssistantWidget.jsx,  *)
(* lines 90-443) together with its only caller, the FormFiller page        *)
(* (src/unnamed/part_003).                                                 *)
(*                                                                         *)
(* Strings of the program are sequences of one-character strings, so that  *)
(* the regular expressions of extractValue are computed, not assumed.      *)
(* An async handler is one action per stretch of code between two awaits.  *)
(***************************************************************************)
EXTENDS Integers, Sequences, FiniteSets, TLC

(***************************************************************************)
(* Bounds of the model.                                                    *)
(***************************************************************************)
\* the longest modelled form keeps this many fields; every form keeps its
\* difference in length to the longest one
MaxFields == 3
\* speak() calls that may be in flight (awaiting /speak or playing) at once
MaxTasks == 1
\* save requests / download timers recorded per session
MaxSaves == 2
\* speak() calls in flight at once when the speech layer is run on its own
MaxUtterances == 2
\* tokens in a transcript handed to extractValue on its own
MaxWords == 3
\* entries of the conversation history that are recorded, from the first on
MaxHistory == 2

(***************************************************************************)
(* Characters and strings.                                                 *)
(***************************************************************************)
Digits == {"0", "1", "2", "3", "4", "5", "6", "7", "8", "9"}
Whitespace == {" "}

UpperChars == <<"A", "B", "C", "D", "E", "F", "G", "H", "I", "J", "K", "L", "M",
                "N", "O", "P", "Q", "R", "S", "T", "U", "V", "W", "X", "Y", "Z">>
LowerChars == <<"a", "b", "c", "d", "e", "f", "g", "h", "i", "j", "k", "l", "m",
                "n", "o", "p", "q", "r", "s", "t", "u", "v", "w", "x", "y", "z">>

\* the /i flag: both sides are compared in lower case
ToLower(c) ==
    IF \E i \in DOMAIN UpperChars : UpperChars[i] = c
    THEN LowerChars[CHOOSE i \in DOMAIN UpperChars : UpperChars[i] = c]
    ELSE c

\* a slip in line 424: the /i flag is left out of the test
LowerStr_same(s) == s

LowerStr(s) == [i \in DOMAIN s |-> ToLower(s[i])]

\* JS null, as returned by extractValue ("no match")
Null == <<"null">>

\* String.prototype.slice(0, n)
Slice(s, n) == SubSeq(s, 1, IF Len(s) < n THEN Len(s) ELSE n)

\* text.replace(/\D/g, '')
DigitsOnly(s) == SelectSeq(s, LAMBDA c : c \in Digits)

\* s[i..i+n-1] exists and holds digits only: \d{n} matches at i
DigitRunAt(s, i, n) ==
    /\ i + n - 1 <= Len(s)
    /\ \A k \in i..(i + n - 1) : s[k] \in Digits

\* the literal pat matches s at i, ignoring case
LiteralAt(s, i, pat) ==
    /\ i + Len(pat) - 1 <= Len(s)
    /\ \A k \in 1..Len(pat) : ToLower(s[i + k - 1]) = pat[k]

(***************************************************************************)
(* extractValue, AssistantWidget.jsx 410-429.                              *)
(***************************************************************************)
\* /\d{10}/
MobileDigits == 10
\* slice(0, 12) of the aadhar fallback
AadharDigits == 12
\* \d{4} of the aadhar pattern
AadharGroup == 4
\* cleaned.length < 2
MinTextLen == 2

\* text.match(/\d{10}/): the leftmost run, or Null
MatchMobile(s) ==
    IF \E i \in 1..Len(s) : DigitRunAt(s, i, MobileDigits)
    THEN LET i == CHOOSE j \in 1..Len(s) :
                     /\ DigitRunAt(s, j, MobileDigits)
                     /\ \A k \in 1..(j - 1) : ~DigitRunAt(s, k, MobileDigits)
         IN  SubSeq(s, i, i + MobileDigits - 1)
    ELSE Null

\* position after an optional whitespace at j: \s?
SkipWs(s, j) == IF j <= Len(s) /\ s[j] \in Whitespace THEN j + 1 ELSE j

\* end position (inclusive) of /\d{4}\s?\d{4}\s?\d{4}/ matched at i, or 0
AadharEndAt(s, i) ==
    IF ~DigitRunAt(s, i, AadharGroup) THEN 0
    ELSE LET j == SkipWs(s, i + AadharGroup)
         IN  IF ~DigitRunAt(s, j, AadharGroup) THEN 0
             ELSE LET k == SkipWs(s, j + AadharGroup)
                  IN  IF ~DigitRunAt(s, k, AadharGroup) THEN 0
                      ELSE k + AadharGroup - 1

\* text.match(/\d{4}\s?\d{4}\s?\d{4}/): the matched text, separators kept
MatchAadhar(s) ==
    IF \E i \in 1..Len(s) : AadharEndAt(s, i) > 0
    THEN LET i == CHOOSE j \in 1..Len(s) :
                     /\ AadharEndAt(s, j) > 0
                     /\ \A k \in 1..(j - 1) : AadharEndAt(s, k) = 0
         IN  SubSeq(s, i, AadharEndAt(s, i))
    ELSE Null

\* the alternation (my name is|mera naam|naam|hai|is|hain|ji), in its order
Fillers ==
    << <<"m", "y", " ", "n", "a", "m", "e", " ", "i", "s">>,
       <<"m", "e", "r", "a", " ", "n", "a", "a", "m">>,
       <<"n", "a", "a", "m">>,
       <<"h", "a", "i">>,
       <<"i", "s">>,
       <<"h", "a", "i", "n">>,
       <<"j", "i">> >>

\* length of the first alternative that matches at i, or 0
FillerLenAt(s, i) ==
    IF \E a \in DOMAIN Fillers : LiteralAt(s, i, Fillers[a])
    THEN Len(Fillers[CHOOSE a \in DOMAIN Fillers :
                        /\ LiteralAt(s, i, Fillers[a])
                        /\ \A b \in 1..(a - 1) : ~LiteralAt(s, i, Fillers[b])])
    ELSE 0

RECURSIVE RemoveFillersFrom(_, _)
\* .replace(/(...)/gi, ''): leftmost matches, left to right, removed
RemoveFillersFrom(s, i) ==
    IF i > Len(s) THEN <<>>
    ELSE LET n == FillerLenAt(s, i)
         IN  IF n > 0 THEN RemoveFillersFrom(s, i + n)
             ELSE <<s[i]>> \o RemoveFillersFrom(s, i + 1)

RECURSIVE CollapseFrom(_, _)
\* .replace(/\s+/g, ' ')
CollapseFrom(s, i) ==
    IF i > Len(s) THEN <<>>
    ELSE IF s[i] \in Whitespace
         THEN IF i > 1 /\ s[i - 1] \in Whitespace
              THEN CollapseFrom(s, i + 1)
              ELSE <<" ">> \o CollapseFrom(s, i + 1)
         ELSE <<s[i]>> \o CollapseFrom(s, i + 1)

RECURSIVE Trim(_)
\* .trim()
Trim(s) ==
    IF s = <<>> THEN s
    ELSE IF s[1] \in Whitespace THEN Trim(Tail(s))
    ELSE IF s[Len(s)] \in Whitespace THEN Trim(SubSeq(s, 1, Len(s) - 1))
    ELSE s

\* the words of /^(tell|call|what|how|why|can|ok|yes|no|stop|help|hello|hi)$/i
RejectWords ==
    { <<"t", "e", "l", "l">>, <<"c", "a", "l", "l">>, <<"w", "h", "a", "t">>,
      <<"h", "o", "w">>, <<"w", "h", "y">>, <<"c", "a", "n">>, <<"o", "k">>,
      <<"y", "e", "s">>, <<"n", "o">>, <<"s", "t", "o", "p">>,
      <<"h", "e", "l", "p">>, <<"h", "e", "l", "l", "o">>, <<"h", "i">> }

CleanText(s) == Trim(CollapseFrom(RemoveFillersFrom(s, 1), 1))

\* `x || null` on a string: the empty string is falsy
OrNull(s) == IF s = <<>> THEN Null ELSE s

extractValue(text, fieldType) ==
    IF text = <<>> THEN Null
    ELSE IF fieldType = "mobile"
    THEN IF MatchMobile(text) # Null THEN MatchMobile(text)
         ELSE OrNull(Slice(DigitsOnly(text), MobileDigits))
    ELSE IF fieldType = "aadhar"
    THEN IF MatchAadhar(text) # Null THEN MatchAadhar(text)
         ELSE OrNull(Slice(DigitsOnly(text), AadharDigits))
    ELSE LET cleaned == CleanText(text)
         IN  IF LowerStr(cleaned) \in RejectWords \/ Len(cleaned) < MinTextLen
             THEN Null
             ELSE cleaned

(***************************************************************************)
(* Configuration: the schemes of the FormFiller page (part_003 11-52).     *)
(***************************************************************************)
SchemeIds == {"pm-kisan", "ujjwala"}

\* schemes[id].fields as written in the source
SchemeFieldsFull(id) ==
    IF id = "pm-kisan"
    THEN <<"name", "fatherName", "aadhar", "mobile",
           "bankAccount", "ifsc", "address", "landArea">>
    ELSE <<"name", "aadhar", "mobile", "address",
           "bankAccount", "ifsc", "bplNumber">>

LongestForm == Len(SchemeFieldsFull("pm-kisan"))

\* the modelled field list: the first fields of the form, every form cut by
\* the same number of trailing fields
SchemeFields(id) ==
    LET full == SchemeFieldsFull(id)
        keep == Len(full) - (LongestForm - MaxFields)
    IN  SubSeq(full, 1, IF keep < 1 THEN 1 ELSE keep)

\* keys of SCHEME_FIELD_ORDER (conversationQuestions.js 11-63)
SchemeFieldOrderIds ==
    {"pm-kisan", "ujjwala", "sukanya-samriddhi", "kisan-credit", "ration-card",
     "vidhva-sahay", "ayushman-bharat", "pm-awas"}

\* the value of a missing property or an out-of-range index; used as an
\* object key it is the string "undefined"
Undefined == "undefined"

\* searchParams.get('scheme') when the URL has no scheme: null (falsy)
NoId == ""
\* scheme === null
NoScheme == "null"

\* part_003 82: schemeId ? (schemes[schemeId] || schemes['pm-kisan']) : null
\* (the scheme object is named by its key in schemes)
SchemeOf(id) ==
    IF id = NoId THEN NoScheme
    ELSE IF id \in SchemeIds THEN id ELSE "pm-kisan"

\* s.id of a scheme object: the objects of part_003 11-52 carry name, icon and
\* fields, and no id
SchemeObjId(s) == Undefined

\* fields[i] of a JS array, 0-based
At(fields, i) == IF i + 1 \in DOMAIN fields THEN fields[i + 1] ELSE Undefined

\* getFieldOrder, AssistantWidget.jsx 271-275
getFieldOrder(s) ==
    IF s = NoScheme THEN <<>>
    ELSE IF SchemeObjId(s) \in SchemeFieldOrderIds
         THEN SchemeFields(SchemeObjId(s))
         ELSE SchemeFields(s)

(***************************************************************************)
(* Inputs.                                                                 *)
(***************************************************************************)
\* "stop": no field accepts it
TStop == <<"s", "t", "o", "p">>
\* "Om 123456789012": every field extracts a value from it
TAnswer == <<"O", "m", " ", "1", "2", "3", "4", "5", "6", "7", "8", "9", "0", "1", "2">>

\* transcripts of the recogniser or the chat box: non-empty, trimmed
Transcripts == {TStop, TAnswer}

\* scheme ids the classifier may answer with: one the page knows, and one it
\* does not know (which part_003 82 resolves to the pm-kisan form)
ClassifierIds == {"ujjwala", "mgnrega"}

\* outcomes of POST /recommend-scheme: a network or JSON failure, or a body
\* {success, message, scheme_id}
RecommendOutcomes ==
    {[fail |-> TRUE, success |-> FALSE, hasMessage |-> FALSE, scheme_id |-> NoId]}
    \cup {[fail |-> FALSE, success |-> FALSE, hasMessage |-> h, scheme_id |-> NoId] :
            h \in BOOLEAN}
    \cup {[fail |-> FALSE, success |-> TRUE, hasMessage |-> h, scheme_id |-> id] :
            h \in BOOLEAN, id \in ClassifierIds}

\* the field keys a transcript can be extracted against
FieldKeys ==
    UNION {{SchemeFieldsFull(id)[i] : i \in DOMAIN SchemeFieldsFull(id)} :
             id \in SchemeIds} \cup {Undefined}

\* extractValue on the model's inputs, computed once
ExtractTable ==
    [t \in Transcripts, f \in FieldKeys |-> extractValue(t, f)]

(***************************************************************************)
(* State.                                                                  *)
(***************************************************************************)
VARIABLES
    schemeId,       \* FormFiller: searchParams.get('scheme')
    formData,       \* FormFiller: formData
    synthAvailable, \* whether window.speechSynthesis exists
    aiState,        \* stateRef.current
    currentStep,    \* currentStepRef.current
    language,       \* languageRef.current
    collectedData,  \* collectedDataRef.current
    tasks,          \* speak() calls in flight
    recommends,     \* /recommend-scheme requests in flight
    switches,       \* scheme ids handed to onSchemeChange
    saved,          \* the /save-form requests issued: body and response
    downloadTimers, \* setTimeout(onDownload, 2000) calls made
    started,        \* whether startConversation has run
    isListening,    \* VoiceInput: a recognition session is running
    mounted,        \* the FormFiller page is on screen
    extracted,      \* a call of extractValue on its own: arguments and result
    history         \* conversationHistory: its first MaxHistory entries

vars == <<schemeId, formData, synthAvailable, aiState, currentStep, language,
          collectedData, tasks, recommends, switches, saved, downloadTimers,
          started, isListening, mounted, extracted, history>>

\* {} as an object
EmptyData == <<>>

\* the result of a call that has not returned yet
Pending == <<"pending">>

\* no call of extractValue on its own
NoExtraction == [text |-> <<>>, fieldType |-> "", value |-> Pending]

\* a slip in lines 366 and part_003 79-82: the object is not spread
PutField_alone(data, key, value) == [k \in {key} |-> value]

\* { ...data, [key]: value }
PutField(data, key, value) ==
    [k \in DOMAIN data \cup {key} |-> IF k = key THEN value ELSE data[k]]

\* data[key] || ''
GetOrEmpty(data, key) == IF key \in DOMAIN data THEN data[key] ELSE <<>>

(***************************************************************************)
(* Utterance texts, completion callbacks and continuations.                *)
(***************************************************************************)
Text(kind, field, value) == [kind |-> kind, field |-> field, value |-> value]

Greeting == Text("greeting", "", <<>>)          \* getDynamicGreeting(lang)
TriageGreeting == Text("triage", "", <<>>)      \* greeting + helpMsg
Question(fieldKey) == Text("question", fieldKey, <<>>)  \* getQuestion
GotIt(value) == Text("gotIt", "", value)        \* PHRASES.gotIt[langCode](value)
RetryMsg == Text("retry", "", <<>>)             \* PHRASES.retry[langCode]
DoneMsg == Text("done", "", <<>>)               \* PHRASES.done[langCode]
Message == Text("message", "", <<>>)            \* data.message, non-empty
NoText == Text("empty", "", <<>>)               \* data.message, empty or absent
UserText(transcript) == Text("user", "", transcript)  \* what the user said

\* no fieldKey in the scope of a callback
NoField == ""

\* the onEnd argument of speak: a closure, with the step it passes on, the
\* fieldKey of the scope it was made in (which it never reads) and the scheme id
NoEnd == [kind |-> "none", step |-> 0, field |-> NoField, id |-> NoId]
AskEnd(step, fieldKey) == [kind |-> "ask", step |-> step, field |-> fieldKey, id |-> NoId]
SchemeEnd(id) == [kind |-> "scheme", step |-> 0, field |-> NoField, id |-> id]

\* what the caller does after `await speak(...)`
NoAfter == [kind |-> "none", data |-> EmptyData]
FinishAfter(newData) == [kind |-> "finish", data |-> newData]

\* the part of the state speak() and its callbacks write
M == [aiState |-> aiState, tasks |-> tasks, schemeId |-> schemeId,
      switches |-> switches, history |-> history]

Commit(m) ==
    /\ Len(m.tasks) <= MaxTasks
    /\ aiState' = m.aiState
    /\ tasks' = m.tasks
    /\ schemeId' = m.schemeId
    /\ switches' = m.switches
    /\ history' = m.history

\* a slip in line 267: the entry is not added
addHistory_dropped(h, sender, text) == h

\* addHistory, 266-268, as far as the history is recorded; an entry is kept
\* without its timestamp
addHistory(h, sender, text) ==
    IF Len(h) < MaxHistory THEN Append(h, [sender |-> sender, text |-> text])
    ELSE h

RemoveAt(seq, i) == SubSeq(seq, 1, i - 1) \o SubSeq(seq, i + 1, Len(seq))

\* a slip in lines 222, 237, 255, 259: the state is left as it is
ListeningAfter_kept(m) == m

\* 222, 237, 255, 259: setStateAndRef(AI_STATE.LISTENING) when an utterance
\* is over
ListeningAfter(m) == [m EXCEPT !.aiState = "listening"]

(***************************************************************************)
(* speak, AssistantWidget.jsx 167-233.                                     *)
(***************************************************************************)
\* window.speechSynthesis.cancel(): the utterance being spoken gets its error
\* (or end) event, which runs its handler
CancelSynth(ts) ==
    [i \in DOMAIN ts |->
        IF ts[i].phase = "synth" THEN [ts[i] EXCEPT !.phase = "cancelled"]
        ELSE ts[i]]

\* 175-179: the current audio is paused and its onended detached; if it was
\* playing its promise never resolves, so the call that awaits it never
\* continues; the rejection of a blocked play() still arrives
StopCurrentAudio(ts) ==
    LET kept == SelectSeq(ts, LAMBDA t : ~(t.cur /\ t.phase = "playing"))
    IN  [j \in DOMAIN kept |-> [kept[j] EXCEPT !.cur = FALSE]]

\* 174-186: the synchronous part of speak for a non-empty text
SpeakText(m, text, onEnd, after) ==
    [m EXCEPT
        !.aiState = "speaking",
        !.history = addHistory(@, "ai", text),
        !.tasks = Append(IF synthAvailable
                         THEN CancelSynth(StopCurrentAudio(m.tasks))
                         ELSE StopCurrentAudio(m.tasks),
                         [text |-> text, onEnd |-> onEnd, after |-> after,
                          phase |-> "fetch", cur |-> FALSE])]

\* askNextQuestion, 286-292
askNextQuestion(m, stepIndex) ==
    LET fields == getFieldOrder(SchemeOf(m.schemeId))
    IN  IF stepIndex >= Len(fields) THEN m
        ELSE SpeakText(m, Question(At(fields, stepIndex)), NoEnd, NoAfter)

\* part_003 128-130: setSearchParams({ scheme: newSchemeId, mode: 'voice' })
onSchemeChange(m, newSchemeId) ==
    [m EXCEPT !.schemeId = newSchemeId, !.switches = Append(@, newSchemeId)]

\* the callbacks passed as onEnd: 319, 344, 379, 405
RunOnEnd(m, onEnd) ==
    IF onEnd.kind = "ask" THEN askNextQuestion(m, onEnd.step)
    ELSE IF onEnd.kind = "scheme" THEN onSchemeChange(m, onEnd.id)
    ELSE m

\* speak: 168-171 for an empty text, else the synchronous part
Speak(m, text, onEnd, after) ==
    IF text.kind = "empty" THEN RunOnEnd(m, onEnd)
    ELSE SpeakText(m, text, onEnd, after)

\* 387-400: the save request and the download timer
SaveBody(id, newData) ==
    [scheme |-> IF SchemeOf(id) # NoScheme /\ SchemeObjId(SchemeOf(id)) # Undefined
                THEN SchemeObjId(SchemeOf(id)) ELSE "unknown",
     mobile |-> GetOrEmpty(newData, "mobile"),
     aadhar |-> GetOrEmpty(newData, "aadhar"),
     fields |-> newData,
     reply |-> "pending"]

\* a slip in lines 387-400: the timer is set by the .then of the save request
RunAfter_whenSaved(after, id) ==
    IF after.kind = "finish"
    THEN /\ saved' = Append(saved, SaveBody(id, after.data))
         /\ UNCHANGED downloadTimers
    ELSE UNCHANGED <<saved, downloadTimers>>

\* the caller's code after `await speak(...)` returns
RunAfter(after, id) ==
    IF after.kind = "finish"
    THEN /\ saved' = Append(saved, SaveBody(id, after.data))
         /\ downloadTimers' = downloadTimers + 1
    ELSE UNCHANGED <<saved, downloadTimers>>

\* done utterances whose caller has not yet continued
PendingFinish(ts) == Len(SelectSeq(ts, LAMBDA t : t.after.kind = "finish"))

(***************************************************************************)
(* Initial state: the page is mounted, with or without ?scheme= in the     *)
(* URL; the hook's refs hold their defaults (AssistantWidget.jsx 104-116). *)
(***************************************************************************)
Languages == {"hi-IN"}

Init ==
    /\ schemeId \in {NoId} \cup SchemeIds
    /\ formData = EmptyData
    /\ synthAvailable \in BOOLEAN
    /\ aiState = "idle"
    /\ currentStep = 0
    /\ language = "hi-IN"
    /\ collectedData = EmptyData
    /\ tasks = <<>>
    /\ recommends = <<>>
    /\ switches = <<>>
    /\ saved = <<>>
    /\ downloadTimers = 0
    /\ started = FALSE
    /\ isListening = FALSE
    /\ mounted = TRUE
    /\ extracted = NoExtraction
    /\ history = <<>>

(***************************************************************************)
(* VoiceInput, mounted with autoStart = (aiState === 'listening')          *)
(* (part_003 286-289).  A handler's writes are rendered together, so the   *)
(* prop is the state a step ends in.                                       *)
(***************************************************************************)
\* VoiceInput 29-33 and 147-153: when autoStart turns true and no session
\* runs, recognition is started
AutoStart ==
    isListening' = (isListening \/ (aiState # "listening" /\ aiState' = "listening"))

(***************************************************************************)
(* startConversation, 295-321, called by the orb while the assistant is    *)
(* idle (part_003 238-241, always with 'hi-IN').                           *)
(***************************************************************************)
\* a slip in lines 317-320: field 0 is asked at once, with no greeting
StartSpeak_direct(m) ==
    IF SchemeOf(m.schemeId) = NoScheme
    THEN Speak([m EXCEPT !.aiState = "triage"], TriageGreeting, NoEnd, NoAfter)
    ELSE askNextQuestion(m, 0)

\* 303-320: the greeting of either mode
StartSpeak(m) ==
    IF SchemeOf(m.schemeId) = NoScheme
    THEN Speak([m EXCEPT !.aiState = "triage"], TriageGreeting, NoEnd, NoAfter)
    ELSE Speak(m, Greeting, AskEnd(0, NoField), NoAfter)

StartConversation ==
    /\ mounted
    /\ aiState = "idle"
    /\ \E lang \in Languages : language' = lang
    /\ currentStep' = 0
    /\ collectedData' = EmptyData
    /\ started' = TRUE
    /\ Commit(StartSpeak([M EXCEPT !.history = <<>>]))
    /\ UNCHANGED <<formData, synthAvailable, recommends, saved, downloadTimers,
                   isListening, mounted, extracted>>

\* part_003 240: the orb clicked while not idle
StopSpeech ==
    /\ mounted
    /\ aiState # "idle"
    /\ synthAvailable
    /\ \E i \in DOMAIN tasks : tasks[i].phase = "synth"
    /\ tasks' = CancelSynth(tasks)
    /\ UNCHANGED <<schemeId, formData, synthAvailable, aiState, currentStep,
                   language, collectedData, recommends, switches, saved, downloadTimers,
                   started, isListening, mounted, extracted, history>>

(***************************************************************************)
(* processResponse, 324-408: the code up to its first await.               *)
(***************************************************************************)
\* 333: the states in which a transcript goes to the classifier
IsTriageState(s) == s \in {"triage", "idle"}

\* 365: value && value.length >= 1
HasValue(value) == value # Null /\ Len(value) >= 1

\* a slip in line 374: the step is counted down
NextStepOf_down(step) == step - 1

\* 374
NextStepOf(step) == step + 1

\* 404-406: the callback of the retry prompt
RetryEnd(step, fieldKey) == AskEnd(step, fieldKey)

\* a slip in lines 378-380: the acknowledgment is spoken with no callback
AckEnd_none(nextStep, fieldKey) == NoEnd

\* 378-380: the callback of the acknowledgment
AckEnd(nextStep, fieldKey) == AskEnd(nextStep, fieldKey)

\* 366-369: the value is stored and the form view told
StoreField(fieldKey, value) ==
    /\ collectedData' = PutField(collectedData, fieldKey, value)
    /\ formData' = PutField(formData, fieldKey, value)

ProcessResponse(transcript) ==
    /\ transcript # <<>>
    /\ IF IsTriageState(aiState)
       THEN /\ recommends' = Append(recommends,
                    [transcript |-> transcript, language |-> language])
            /\ Commit([M EXCEPT !.aiState = "processing",
                                 !.history = addHistory(@, "user", UserText(transcript))])
            /\ UNCHANGED <<currentStep, collectedData, formData>>
       ELSE LET fields == getFieldOrder(SchemeOf(schemeId))
                step == currentStep
                fieldKey == At(fields, step)
                value == ExtractTable[transcript, fieldKey]
                m == [M EXCEPT !.aiState = "processing",
                               !.history = addHistory(@, "user", UserText(transcript))]
            IN  /\ UNCHANGED recommends
                /\ IF HasValue(value)
                   THEN /\ StoreField(fieldKey, value)
                        /\ IF NextStepOf(step) < Len(fields)
                           THEN /\ currentStep' = NextStepOf(step)
                                /\ Commit(Speak(m, GotIt(value),
                                                AckEnd(NextStepOf(step), fieldKey), NoAfter))
                           ELSE /\ Len(saved) + PendingFinish(tasks) < MaxSaves
                                /\ currentStep' = currentStep
                                /\ Commit(Speak([m EXCEPT !.aiState = "completed"],
                                                DoneMsg, NoEnd,
                                                FinishAfter(PutField(collectedData,
                                                                     fieldKey, value))))
                   ELSE /\ Commit(Speak(m, RetryMsg, RetryEnd(step, fieldKey), NoAfter))
                        /\ UNCHANGED <<currentStep, collectedData, formData>>
    /\ UNCHANGED <<synthAvailable, language, saved, downloadTimers, started, mounted, extracted>>

(***************************************************************************)
(* processResponse, 340-352: the answer of /recommend-scheme arrives.      *)
(***************************************************************************)
\* data.message
MessageOf(r) == IF r.hasMessage THEN Message ELSE NoText

\* a slip in lines 349-352: the failure of the request is not answered
RecommendSpeak_silent(m, r) ==
    IF r.fail THEN m
    ELSE IF r.success THEN Speak(m, MessageOf(r), SchemeEnd(r.scheme_id), NoAfter)
    ELSE Speak(m, IF r.hasMessage THEN Message ELSE RetryMsg, NoEnd, NoAfter)

RecommendSpeak(m, r) ==
    IF r.fail THEN Speak(m, RetryMsg, NoEnd, NoAfter)
    ELSE IF r.success THEN Speak(m, MessageOf(r), SchemeEnd(r.scheme_id), NoAfter)
    ELSE Speak(m, IF r.hasMessage THEN Message ELSE RetryMsg, NoEnd, NoAfter)

RecommendResponds(i, r) ==
    /\ i \in DOMAIN recommends
    /\ recommends' = RemoveAt(recommends, i)
    /\ Commit(RecommendSpeak(M, r))
    /\ AutoStart
    /\ UNCHANGED <<formData, synthAvailable, currentStep, language, collectedData,
                   saved, downloadTimers, started, mounted, extracted>>

(***************************************************************************)
(* speak, 187-233, and fallbackSpeak, 235-264: the code after each await.  *)
(***************************************************************************)
\* what audio.play() does: the audio plays, or the browser blocks it and the
\* promise of play() is about to reject
PlayOutcomes == {"playing", "blocked"}

\* 195-202: the audio arrived; it becomes window.currentAudio and play() is
\* called
SpeakFetchOk(i) ==
    /\ i \in DOMAIN tasks
    /\ tasks[i].phase = "fetch"
    /\ \E outcome \in PlayOutcomes :
          tasks' = [j \in DOMAIN tasks |->
                      IF j = i THEN [tasks[j] EXCEPT !.phase = outcome, !.cur = TRUE]
                      ELSE [tasks[j] EXCEPT !.cur = FALSE]]
    /\ UNCHANGED <<schemeId, formData, synthAvailable, aiState, currentStep,
                   language, collectedData, recommends, switches, saved, downloadTimers,
                   started, isListening, mounted, extracted, history>>

\* 203-225: the promise of the audio resolves: window.currentAudio is
\* cleared; then LISTENING, onEnd, and the caller continues
AudioResolves(i) ==
    /\ LET rest == RemoveAt([j \in DOMAIN tasks |-> [tasks[j] EXCEPT !.cur = FALSE]], i)
           m == RunOnEnd(ListeningAfter([M EXCEPT !.tasks = rest]),
                         tasks[i].onEnd)
       IN  /\ Commit(m)
           /\ RunAfter(tasks[i].after, m.schemeId)
    /\ AutoStart
    /\ UNCHANGED <<formData, synthAvailable, currentStep, language, collectedData,
                   recommends, started, mounted, extracted>>

\* 204-213: audio.onended or audio.onerror
AudioDone(i) ==
    /\ i \in DOMAIN tasks
    /\ tasks[i].phase = "playing"
    /\ AudioResolves(i)

\* 214-219: play() rejected (autoplay blocked)
PlayRejected(i) ==
    /\ i \in DOMAIN tasks
    /\ tasks[i].phase = "blocked"
    /\ AudioResolves(i)

\* 195, 198, 227-232 and fallbackSpeak 235-264: the request failed; without a
\* synthesizer the call completes at once, else the utterance is queued and
\* speak returns to its caller
SpeakFetchFail(i) ==
    /\ i \in DOMAIN tasks
    /\ tasks[i].phase = "fetch"
    /\ IF ~synthAvailable
       THEN LET m == RunOnEnd(ListeningAfter([M EXCEPT !.tasks = RemoveAt(tasks, i)]),
                              tasks[i].onEnd)
            IN  /\ Commit(m)
                /\ RunAfter(tasks[i].after, m.schemeId)
       ELSE /\ tasks' = [j \in DOMAIN tasks |->
                            IF j = i
                            THEN [tasks[j] EXCEPT !.phase = "synth", !.after = NoAfter]
                            ELSE CancelSynth(tasks)[j]]
            /\ RunAfter(tasks[i].after, schemeId)
            /\ UNCHANGED <<aiState, schemeId, switches, history>>
    /\ AutoStart
    /\ UNCHANGED <<formData, synthAvailable, currentStep, language, collectedData,
                   recommends, started, mounted, extracted>>

\* 255-262: utterance.onend or utterance.onerror
SynthEvent(i) ==
    /\ i \in DOMAIN tasks
    /\ tasks[i].phase \in {"synth", "cancelled"}
    /\ Commit(RunOnEnd(ListeningAfter([M EXCEPT !.tasks = RemoveAt(tasks, i)]),
                       tasks[i].onEnd))
    /\ AutoStart
    /\ UNCHANGED <<formData, synthAvailable, currentStep, language, collectedData,
                   recommends, saved, downloadTimers, started, mounted, extracted>>

(***************************************************************************)
(* The ways a transcript reaches processResponse.                          *)
(***************************************************************************)
\* part_003 262-281: the chat box, active in every state
TypedInput(transcript) ==
    /\ mounted
    /\ ProcessResponse(transcript)
    /\ UNCHANGED isListening

\* VoiceInput 80-87 and part_003 165-167: recognition ended with text
SpeechRecognized(transcript) ==
    /\ isListening
    /\ isListening' = FALSE
    /\ ProcessResponse(transcript)

\* VoiceInput 80-98: recognition ended with no text; the handlers of the
\* started recogniser were made while isListening was false, so it is not
\* restarted
RecognitionEndsSilent ==
    /\ isListening
    /\ isListening' = FALSE
    /\ UNCHANGED <<schemeId, formData, synthAvailable, aiState, currentStep,
                   language, collectedData, tasks, recommends, switches, saved,
                   downloadTimers, started, mounted, extracted, history>>

(***************************************************************************)
(* The page is left.  The hook registers no cleanup, so the requests,      *)
(* audio and utterances in flight keep their handlers; the chat box and    *)
(* the orb are gone.                                                       *)
(***************************************************************************)
\* 399-400: the response of /save-form, or its failure; both are logged only
SaveReplies == {"ok", "failed"}

SaveResponds(i, reply) ==
    /\ i \in DOMAIN saved
    /\ saved[i].reply = "pending"
    /\ saved' = [saved EXCEPT ![i].reply = reply]
    /\ UNCHANGED <<schemeId, formData, synthAvailable, aiState, currentStep,
                   language, collectedData, tasks, recommends, switches,
                   downloadTimers, started, isListening, mounted, extracted, history>>

Teardown ==
    /\ mounted
    /\ mounted' = FALSE
    /\ UNCHANGED <<schemeId, formData, synthAvailable, aiState, currentStep,
                   language, collectedData, tasks, recommends, switches, saved,
                   downloadTimers, started, isListening, extracted, history>>

Next ==
    \/ StartConversation
    \/ StopSpeech
    \/ \E t \in Transcripts : TypedInput(t)
    \/ \E t \in Transcripts : SpeechRecognized(t)
    \/ RecognitionEndsSilent
    \/ \E i \in DOMAIN recommends, r \in RecommendOutcomes : RecommendResponds(i, r)
    \/ \E i \in DOMAIN tasks : SpeakFetchOk(i)
    \/ \E i \in DOMAIN tasks : SpeakFetchFail(i)
    \/ \E i \in DOMAIN tasks : AudioDone(i)
    \/ \E i \in DOMAIN tasks : PlayRejected(i)
    \/ \E i \in DOMAIN tasks : SynthEvent(i)

Spec == Init /\ [][Next]_vars

(***************************************************************************)
(* The speech layer on its own: speak (167-233) called at any moment by a  *)
(* handler of the page, with the responses and events of its requests,     *)
(* audio elements and utterances, the recogniser that the state starts,    *)
(* and the page being left.                                                *)
(***************************************************************************)
\* the texts of the calls: two different ones
SpeakTexts == {Greeting, RetryMsg}

\* a handler calls speak(text) with no callback
SpeakCalled(text) ==
    /\ mounted
    /\ LET m == SpeakText(M, text, NoEnd, NoAfter)
       IN  /\ Len(m.tasks) <= MaxUtterances
           /\ aiState' = m.aiState
           /\ tasks' = m.tasks
           /\ history' = m.history
    /\ UNCHANGED <<schemeId, formData, synthAvailable, currentStep, language,
                   collectedData, recommends, switches, saved, downloadTimers,
                   started, isListening, mounted, extracted>>

SpeakNext ==
    \/ \E text \in SpeakTexts : SpeakCalled(text)
    \/ StopSpeech
    \/ RecognitionEndsSilent
    \/ Teardown
    \/ \E i \in DOMAIN tasks : SpeakFetchOk(i)
    \/ \E i \in DOMAIN tasks : SpeakFetchFail(i)
    \/ \E i \in DOMAIN tasks : AudioDone(i)
    \/ \E i \in DOMAIN tasks : PlayRejected(i)
    \/ \E i \in DOMAIN tasks : SynthEvent(i)

\* every request settles, every audio element and utterance gets its event
SpeakFairness ==
    /\ WF_vars(\E i \in DOMAIN tasks : SpeakFetchOk(i) \/ SpeakFetchFail(i))
    /\ WF_vars(\E i \in DOMAIN tasks : AudioDone(i))
    /\ WF_vars(\E i \in DOMAIN tasks : PlayRejected(i))
    /\ WF_vars(\E i \in DOMAIN tasks : SynthEvent(i))

SpeakSpec == Init /\ [][SpeakNext]_vars /\ SpeakFairness

(***************************************************************************)
(* The conversation with the responses of /save-form, which are logged     *)
(* only (399-400), and with every request, audio element and utterance of  *)
(* speak getting its event.                                                *)
(***************************************************************************)
FairNext ==
    \/ Next
    \/ \E i \in DOMAIN saved, reply \in SaveReplies : SaveResponds(i, reply)

FairSpec == Init /\ [][FairNext]_vars /\ SpeakFairness

(***************************************************************************)
(* extractValue (410-429) on its own: the arguments are drawn from bounded *)
(* sets and the function is applied to them.                               *)
(***************************************************************************)
\* what a transcript is made of: digit groups of an aadhar number, a mobile
\* and an aadhar number, a filler phrase, names, a filler word
ExtractTokens ==
    { <<"1", "2", "3", "4">>,
      <<"5", "6", "7", "8">>,
      <<"9", "0", "1", "2">>,
      <<"1", "2", "3", "4", "5", "6", "7", "8", "9", "0">>,
      <<"1", "2", "3", "4", "5", "6", "7", "8", "9", "0", "1", "2">>,
      <<"m", "y", " ", "n", "a", "m", "e", " ", "i", "s">>,
      <<"R", "a", "j", "e", "s", "h">>,
      <<"K", "u", "m", "a", "r">>,
      <<"K", "r", "i", "s", "h", "n", "a">>,
      <<"h", "a", "i">> }

\* the thirteen command words, as typed or recognised in lower case
CommandWords ==
    { <<"t", "e", "l", "l">>,
      <<"c", "a", "l", "l">>,
      <<"w", "h", "a", "t">>,
      <<"h", "o", "w">>,
      <<"w", "h", "y">>,
      <<"c", "a", "n">>,
      <<"o", "k">>,
      <<"y", "e", "s">>,
      <<"n", "o">>,
      <<"s", "t", "o", "p">>,
      <<"h", "e", "l", "p">>,
      <<"h", "e", "l", "l", "o">>,
      <<"h", "i">> }

ToUpper(c) ==
    IF \E i \in DOMAIN LowerChars : LowerChars[i] = c
    THEN UpperChars[CHOOSE i \in DOMAIN LowerChars : LowerChars[i] = c]
    ELSE c

\* a word in every mix of upper and lower case
CaseVariants(w) ==
    {[i \in DOMAIN w |-> IF i \in U THEN ToUpper(w[i]) ELSE w[i]] :
        U \in SUBSET DOMAIN w}

RECURSIVE Joined(_)
\* n tokens, joined by single spaces
Joined(n) ==
    IF n = 1 THEN ExtractTokens
    ELSE {w \o <<" ">> \o t : w \in Joined(n - 1), t \in ExtractTokens}

\* the transcripts extractValue is applied to
ExtractTexts ==
    UNION {Joined(n) : n \in 1..MaxWords} \cup UNION {CaseVariants(w) : w \in CommandWords}

\* the two field types extractValue knows, and two it treats as text
ExtractFields == {"mobile", "aadhar", "name", "address"}

ExtractInit ==
    /\ schemeId = NoId
    /\ formData = EmptyData
    /\ synthAvailable = TRUE
    /\ aiState = "idle"
    /\ currentStep = 0
    /\ language = "hi-IN"
    /\ collectedData = EmptyData
    /\ tasks = <<>>
    /\ recommends = <<>>
    /\ switches = <<>>
    /\ saved = <<>>
    /\ downloadTimers = 0
    /\ started = FALSE
    /\ isListening = FALSE
    /\ mounted = TRUE
    /\ extracted \in {[text |-> t, fieldType |-> f, value |-> Pending] :
                        t \in ExtractTexts, f \in ExtractFields}
    /\ history = <<>>

\* the call returns
ExtractApplied ==
    /\ extracted.value = Pending
    /\ extracted.text # <<>>
    /\ extracted' = [extracted EXCEPT
                        !.value = extractValue(extracted.text, extracted.fieldType)]
    /\ UNCHANGED <<schemeId, formData, synthAvailable, aiState, currentStep,
                   language, collectedData, tasks, recommends, switches, saved,
                   downloadTimers, started, isListening, mounted, history>>

ExtractNext == ExtractApplied

ExtractSpec == ExtractInit /\ [][ExtractNext]_vars

(***************************************************************************)
(* Properties.                                                             *)
(***************************************************************************)
\* the form the page was opened with is still the selected one
PreSelected == schemeId # NoId /\ switches = <<>>

FormSelected == SchemeOf(schemeId) # NoScheme

\* no transcript was handled before the conversation was started, so that no
\* classification request was ever sent
NoClassification == recommends = <<>>

CurrentFields == getFieldOrder(SchemeOf(schemeId))

\* the step in which the utterance of tasks[i] signals its completion
TaskCompletes(i) ==
    \/ AudioDone(i)
    \/ PlayRejected(i)
    \/ SynthEvent(i)
    \/ (~synthAvailable /\ SpeakFetchFail(i))

\* the prompt processResponse speaks after a failed or negative classification
IsTriageRetry(t) == t.text.kind \in {"retry", "message"} /\ t.onEnd.kind = "none"

\* the prompt processResponse speaks when no value was extracted for a field
IsFieldRetry(t) == t.text = RetryMsg /\ t.onEnd.kind = "ask"

\* C1: with a pre-selected form, the save request and the document-generation
\* trigger are each issued at most once in the session, whatever transcripts
\* arrive after the last field was answered.
C1_SaveAndDownloadOnce ==
    (PreSelected /\ NoClassification) => (Len(saved) <= 1 /\ downloadTimers <= 1)

\* C2: once the last field was answered and the closing utterance has
\* completed (the save request is out), the controller state is Completed and
\* stays so, and no field question is spoken any more.
C2_CompletedIsTerminal ==
    (PreSelected /\ NoClassification /\ Len(saved) > 0) =>
        /\ aiState = "completed"
        /\ \A i \in DOMAIN tasks : tasks[i].text.kind # "question"

\* C3: every key of collectedData is a field key of the selected form; with no
\* form selected nothing is stored and no field update reaches the form view.
C3_KeysAreFormFields ==
    NoClassification =>
        /\ \A k \in DOMAIN collectedData :
              \E i \in DOMAIN CurrentFields : CurrentFields[i] = k
        /\ ~FormSelected => (collectedData = EmptyData /\ formData = EmptyData)

\* C4: in a conversation started without a form, a transcript received while
\* no form is selected is sent to /recommend-scheme with the active language,
\* and no field value is stored.
C4_TriageTranscriptIsClassified ==
    [][\A t \in Transcripts :
          (started /\ ~FormSelected /\ ProcessResponse(t)) =>
              /\ recommends' = Append(recommends,
                                      [transcript |-> t, language |-> language])
              /\ collectedData' = collectedData
              /\ formData' = formData]_vars

\* C5: when the acknowledgment of the classifier's recommendation for a
\* transcript handled with no form selected has been spoken, the scheme switch
\* is issued with exactly the classifier's id, the step is 0 and the question
\* of field 0 of the selected form is asked.
C5_SwitchThenAskFieldZero ==
    [][\A i \in DOMAIN tasks :
          (~FormSelected /\ tasks[i].onEnd.kind = "scheme" /\ TaskCompletes(i)) =>
              /\ switches' = Append(switches, tasks[i].onEnd.id)
              /\ schemeId' = tasks[i].onEnd.id
              /\ currentStep' = 0
              /\ \E j \in DOMAIN tasks' :
                    tasks'[j].text = Question(At(getFieldOrder(SchemeOf(schemeId')), 0))]_vars

\* C6: after a failed or negative classification no form is selected and, when
\* the retry prompt has been spoken, the controller is back in Triage.
C6_FailedTriageReturnsToTriage ==
    [][\A i \in DOMAIN tasks :
          (~FormSelected /\ IsTriageRetry(tasks[i]) /\ TaskCompletes(i)) =>
              /\ schemeId' = schemeId
              /\ aiState' = "triage"]_vars

\* C7: a transcript with no value for the current field leaves the step, the
\* collected fields and the form view unchanged, and when its retry prompt
\* has been spoken the question of that same field is asked again.
C7_RetryReasksSameField ==
    [][/\ \A t \in Transcripts :
            (/\ ~IsTriageState(aiState)
             /\ FormSelected
             /\ ~HasValue(ExtractTable[t, At(CurrentFields, currentStep)])
             /\ ProcessResponse(t)) =>
                /\ currentStep' = currentStep
                /\ collectedData' = collectedData
                /\ formData' = formData
                /\ \E j \in DOMAIN tasks' : IsFieldRetry(tasks'[j])
       /\ \A i \in DOMAIN tasks :
            (/\ IsFieldRetry(tasks[i])
             /\ tasks[i].onEnd.field # Undefined
             /\ TaskCompletes(i)) =>
                /\ currentStep' = currentStep
                /\ \E j \in DOMAIN tasks' :
                      tasks'[j].text = Question(tasks[i].onEnd.field)]_vars

\* C8: the step never decreases, except by a conversation start, which sets
\* it to 0.
C8_StepNeverDecreases ==
    [][currentStep' < currentStep => (StartConversation /\ currentStep' = 0)]_vars

\* C8, witness: a form is being filled and the step has advanced twice
C8_StepAdvanced == FormSelected /\ currentStep >= 2

\* C9: with a form selected, the step is a valid index into its field order.
C9_StepIsValidIndex ==
    FormSelected => (0 <= currentStep /\ currentStep < Len(CurrentFields))

\* C10: the scheme switch is never issued while a form is selected.
C10_SwitchOnlyWithoutForm ==
    [][switches' # switches => ~FormSelected]_vars

\* the utterances that can be heard: audio that plays, synthesis that speaks
Audible(ts) == {i \in DOMAIN ts : ts[i].phase \in {"playing", "synth"}}

\* the replies processResponse speaks to a transcript
ReplyKinds == {"gotIt", "retry", "done", "message"}

\* VoiceInput 147-153: recognition.start() is called in this step
RecognitionStarts == ~isListening /\ isListening'

\* C11: at every moment at most one utterance is active (remote audio playing
\* or local synthesis speaking), for any interleaving of speak calls with
\* the responses of /speak and the playback events.
C11_AtMostOneActiveUtterance ==
    Cardinality(Audible(tasks)) <= 1

\* C12: the completion signal of a speak call that was followed by a later
\* speak call, or whose utterance was cancelled, does not fire.
C12_SupersededNeverCompletes ==
    [][\A i \in DOMAIN tasks :
          (i < Len(tasks) \/ tasks[i].phase = "cancelled") => ~TaskCompletes(i)]_vars

\* C13: whenever the /speak request fails or the playback of its audio is
\* blocked, and a synthesizer exists, the same text is handed to the local
\* synthesizer.
C13_FailureFallsBackToSynth ==
    [][\A i \in DOMAIN tasks :
          (/\ synthAvailable
           /\ tasks[i].phase \in {"fetch", "blocked"}
           /\ (SpeakFetchFail(i) \/ PlayRejected(i))) =>
              \E j \in DOMAIN tasks' :
                  tasks'[j].text = tasks[i].text /\ tasks'[j].phase = "synth"]_vars

\* C14: unless speak keeps being called, the controller eventually leaves
\* Speaking for good and no speak call stays without its completion signal,
\* whether playback succeeded, was blocked, failed, or the synthesizer was
\* used or missing.
C14_SpeakingEventuallyEnds ==
    \/ []<><<\E text \in SpeakTexts : SpeakCalled(text)>>_vars
    \/ <>[](aiState # "speaking" /\ tasks = <<>>)

\* C14, witness: with no synthesizer, a speak call whose request failed has
\* completed and the controller listens
C14_ListeningAfterFailure ==
    ~synthAvailable /\ aiState = "listening" /\ tasks = <<>>

\* C15: recognition is started only when the state is Listening and no
\* utterance can be heard.
C15_RecognitionStartsInSilence ==
    [][RecognitionStarts =>
          (aiState' = "listening" /\ Audible(tasks') = {})]_vars

\* C16: a transcript is taken into processing only when no earlier transcript
\* awaits the classifier's response or its spoken reply.
C16_OneTurnAtATime ==
    [][\A t \in Transcripts :
          ProcessResponse(t) =>
              /\ recommends = <<>>
              /\ \A i \in DOMAIN tasks : tasks[i].text.kind \notin ReplyKinds]_vars

\* C17: once the page is left (the conversation is ended), a response or
\* event that arrives afterwards starts no utterance and changes neither the
\* controller state, the selected scheme nor the form data.
C17_NothingHappensAfterTeardown ==
    [][~mounted =>
          /\ aiState' = aiState
          /\ schemeId' = schemeId
          /\ formData' = formData
          /\ Audible(tasks') \subseteq
                {j \in DOMAIN tasks' : \E i \in Audible(tasks) : tasks[i] = tasks'[j]}]_vars

\* the call of extractValue has returned
Extracted == extracted.value # Pending

AllDigits(s) == \A i \in DOMAIN s : s[i] \in Digits

\* dddd dddd dddd
IsGrouped444(s) ==
    /\ Len(s) = 3 * AadharGroup + 2
    /\ \A i \in DOMAIN s :
          IF i \in {AadharGroup + 1, 2 * AadharGroup + 2}
          THEN s[i] \in Whitespace
          ELSE s[i] \in Digits

\* the words of a string: its maximal stretches without whitespace
Words(s) ==
    {SubSeq(s, i, j) : <<i, j>> \in
        {p \in (1..Len(s)) \X (1..Len(s)) :
            /\ p[1] <= p[2]
            /\ \A k \in p[1]..p[2] : s[k] \notin Whitespace
            /\ (p[1] = 1 \/ s[p[1] - 1] \in Whitespace)
            /\ (p[2] = Len(s) \/ s[p[2] + 1] \in Whitespace)}}

\* the words the filler pattern is made of
FillerWords == UNION {Words(Fillers[a]) : a \in DOMAIN Fillers}

\* C18: extraction for the mobile field returns exactly 10 digits or no
\* match, and for the aadhar field exactly 12 digits, a 4-4-4 grouping of
\* digits, or no match.
C18_DigitsExactOrNoMatch ==
    /\ (Extracted /\ extracted.fieldType = "mobile") =>
          \/ extracted.value = Null
          \/ (Len(extracted.value) = MobileDigits /\ AllDigits(extracted.value))
    /\ (Extracted /\ extracted.fieldType = "aadhar") =>
          \/ extracted.value = Null
          \/ (Len(extracted.value) = AadharDigits /\ AllDigits(extracted.value))
          \/ IsGrouped444(extracted.value)

\* C19: for each of the thirteen command words, in any letter case,
\* extraction for a text field returns no match.
C19_CommandWordsRejected ==
    (/\ Extracted
     /\ extracted.fieldType \notin {"mobile", "aadhar"}
     /\ \E w \in CommandWords : extracted.text \in CaseVariants(w)) =>
        extracted.value = Null

\* C19, witness: "StoP" was handed to extractValue for the name field, which
\* has returned
C19_MixedCaseStop ==
    /\ Extracted
    /\ extracted.fieldType = "name"
    /\ extracted.text = <<"S", "t", "o", "P">>

\* C20: when extraction for a text field returns a value, every word of the
\* transcript that is not a word of a filler phrase is a word of the value,
\* and "my name is Rajesh Kumar" yields "Rajesh Kumar".
C20_OtherWordsUnchanged ==
    (/\ Extracted
     /\ extracted.fieldType \notin {"mobile", "aadhar"}
     /\ extracted.value # Null) =>
        /\ \A w \in Words(extracted.text) :
              LowerStr(w) \notin FillerWords => w \in Words(extracted.value)
        /\ extracted.text = <<"m", "y", " ", "n", "a", "m", "e", " ", "i", "s", " ",
                              "R", "a", "j", "e", "s", "h", " ", "K", "u", "m", "a", "r">>
              => extracted.value = <<"R", "a", "j", "e", "s", "h", " ", "K", "u", "m", "a", "r">>

\* C21: for the aadhar field, a transcript that carries twelve digits grouped
\* 4-4-4 with spaces extracts to the same value as the transcript that carries
\* the same twelve digits ungrouped.
C21_GroupedEqualsUngrouped ==
    (/\ Extracted
     /\ extracted.fieldType = "aadhar"
     /\ IsGrouped444(extracted.text)) =>
        extracted.value = extractValue(DigitsOnly(extracted.text), "aadhar")

AiStates == {"idle", "triage", "listening", "processing", "speaking", "completed"}

\* C23: a failed /recommend-scheme request is answered by the retry prompt,
\* which puts the controller into Speaking, and changes neither the scheme,
\* the step nor the data; a failed /speak request hands the text to the
\* synthesizer or completes the call, and never leaves the controller in
\* Processing; a failed /save-form request changes nothing but the request;
\* and the controller state is always one of the six states.
C23_FailuresAreCaught ==
    /\ [](aiState \in AiStates)
    /\ [][\A i \in DOMAIN recommends, r \in RecommendOutcomes :
             (r.fail /\ RecommendResponds(i, r)) =>
                 /\ aiState' = "speaking"
                 /\ \E j \in DOMAIN tasks' :
                       tasks'[j].text = RetryMsg /\ tasks'[j].phase = "fetch"
                 /\ UNCHANGED <<schemeId, switches, currentStep, collectedData,
                                formData>>]_vars
    /\ [][\A i \in DOMAIN tasks :
             SpeakFetchFail(i) =>
                 /\ aiState' \in AiStates \ {"processing"}
                 /\ IF synthAvailable
                    THEN tasks'[i].text = tasks[i].text /\ tasks'[i].phase = "synth"
                    ELSE Len(tasks') = Len(tasks) - 1
                            \/ tasks[i].onEnd.kind = "ask"
                 /\ UNCHANGED <<currentStep, collectedData, formData>>]_vars
    /\ [][\A i \in DOMAIN saved :
             SaveResponds(i, "failed") =>
                 UNCHANGED <<aiState, schemeId, currentStep, collectedData,
                             formData, tasks, downloadTimers>>]_vars

\* C23, witness: the classifier request of a session without a form has
\* gone and the retry prompt is being fetched
C23_RetryAfterFailedRequest ==
    /\ schemeId = NoId /\ switches = <<>> /\ recommends = <<>>
    /\ aiState = "speaking"
    /\ Len(tasks) = 1 /\ tasks[1].text = RetryMsg /\ tasks[1].onEnd = NoEnd
    /\ tasks[1].phase = "fetch" /\ currentStep = 0 /\ collectedData = EmptyData

\* C24: when a transcript yields a value at step k of the selected form and
\* more fields remain, the handler stores the value under the k-th key, tells
\* the form view that one field, sets the step to k + 1 and speaks the
\* acknowledgment with the value, without asking a question; the question of
\* step k + 1 is asked by the step in which that acknowledgment completes.
C24_StoreAckThenAsk ==
    /\ [][\A t \in Transcripts :
             LET k == currentStep
                 key == At(CurrentFields, k)
                 value == ExtractTable[t, key]
             IN  (/\ ProcessResponse(t)
                  /\ ~IsTriageState(aiState)
                  /\ FormSelected
                  /\ k + 1 < Len(CurrentFields)
                  /\ value # Null) =>
                     /\ DOMAIN collectedData' = DOMAIN collectedData \cup {key}
                     /\ collectedData'[key] = value
                     /\ \A f \in DOMAIN collectedData \ {key} :
                           collectedData'[f] = collectedData[f]
                     /\ DOMAIN formData' = DOMAIN formData \cup {key}
                     /\ formData'[key] = value
                     /\ \A f \in DOMAIN formData \ {key} : formData'[f] = formData[f]
                     /\ currentStep' = k + 1
                     /\ LET ack == tasks'[Len(tasks')]
                        IN  /\ ack.text = GotIt(value)
                            /\ ack.phase = "fetch"
                            /\ ack.onEnd.kind = "ask"
                            /\ ack.onEnd.step = k + 1
                     /\ \A j \in DOMAIN tasks' :
                           tasks'[j].text.kind = "question" =>
                               \E i \in DOMAIN tasks : tasks[i].text = tasks'[j].text]_vars
    /\ [][\A i \in DOMAIN tasks :
             (/\ tasks[i].text.kind = "gotIt"
              /\ TaskCompletes(i)
              /\ tasks[i].onEnd.step < Len(CurrentFields)) =>
                 \E j \in DOMAIN tasks' :
                     /\ tasks'[j].text = Question(At(CurrentFields, tasks[i].onEnd.step))
                     /\ tasks'[j].phase = "fetch"]_vars

\* C24, witness: the first field of PM Kisan is stored, its acknowledgment
\* has completed and the question of the second field is being fetched
C24_SecondQuestionAsked ==
    /\ schemeId = "pm-kisan" /\ PreSelected /\ NoClassification
    /\ DOMAIN collectedData = {"name"}
    /\ currentStep = 1
    /\ Len(tasks) = 1 /\ tasks[1].text = Question(At(CurrentFields, 1))

\* the field keys of the selected form
CurrentKeys == {CurrentFields[i] : i \in DOMAIN CurrentFields}

IsPrefix(h, g) == Len(h) <= Len(g) /\ SubSeq(g, 1, Len(h)) = h

\* C26: a speak call with a non-empty text adds one entry of the assistant
\* with that text to the history in the step of the call, in which the
\* utterance is no further than its request; no other step of the speech
\* layer changes the history, and the history is only ever extended at its
\* end.
C26_SpeakAppendsBeforeAudio ==
    /\ [][\A text \in SpeakTexts :
             SpeakCalled(text) =>
                 /\ Len(history) < MaxHistory =>
                       history' = Append(history, [sender |-> "ai", text |-> text])
                 /\ tasks'[Len(tasks')].text = text
                 /\ tasks'[Len(tasks')].phase = "fetch"]_vars
    /\ [][history' # history => \E text \in SpeakTexts : SpeakCalled(text)]_vars
    /\ [][IsPrefix(history, history') /\ Len(history') <= Len(history) + 1]_vars

\* C26, witness: the greeting and then the retry prompt were spoken; their
\* entries stand in that order and the retry prompt is still being fetched
C26_TwoEntriesInOrder ==
    /\ history = <<[sender |-> "ai", text |-> Greeting],
                   [sender |-> "ai", text |-> RetryMsg]>>
    /\ \E i \in DOMAIN tasks : tasks[i].text = RetryMsg /\ tasks[i].phase = "fetch"

\* the history entry of an utterance
AiEntry(text) == [sender |-> "ai", text |-> text]

\* C27: startConversation with a form selected takes the controller from Idle
\* to Speaking with step 0, starts the greeting and nothing else, and makes
\* the greeting the first entry of the history; the question of field 0 is
\* asked by the step in which the greeting completes and its entry is added
\* behind the greeting's.
C27_GreetingThenFieldZero ==
    /\ [][(StartConversation /\ FormSelected) =>
             /\ aiState = "idle" /\ aiState' = "speaking"
             /\ currentStep' = 0
             /\ history' = <<AiEntry(Greeting)>>
             /\ Len(tasks') = 1
             /\ tasks'[1].text = Greeting /\ tasks'[1].phase = "fetch"]_vars
    /\ [][\A i \in DOMAIN tasks :
             (tasks[i].text = Greeting /\ TaskCompletes(i)) =>
                 /\ \E j \in DOMAIN tasks' :
                       /\ tasks'[j].text = Question(At(CurrentFields, 0))
                       /\ tasks'[j].phase = "fetch"
                 /\ history[1] = AiEntry(Greeting)
                 /\ Len(history) < MaxHistory =>
                       history' = Append(history, AiEntry(Question(At(CurrentFields, 0))))]_vars
    /\ [][\A j \in DOMAIN tasks' :
             (tasks'[j].text.kind = "question" /\ started /\ history = <<AiEntry(Greeting)>>) =>
                 \/ \E i \in DOMAIN tasks : tasks[i] = tasks'[j]
                 \/ \E i \in DOMAIN tasks : tasks[i].text = Greeting /\ TaskCompletes(i)]_vars

\* C27, witness: the greeting has completed and the question of field 0 is
\* being fetched, second in the history, at step 0
C27_FieldZeroAsked ==
    /\ started /\ FormSelected /\ currentStep = 0
    /\ history = <<AiEntry(Greeting), AiEntry(Question(At(CurrentFields, 0)))>>
    /\ Len(tasks) = 1 /\ tasks[1].text = Question(At(CurrentFields, 0))
    /\ tasks[1].phase = "fetch"

\* the utterance whose callback will ask the question of the current step is
\* still in flight, so that question has not been spoken
QuestionStillToCome ==
    \E i \in DOMAIN tasks :
        tasks[i].onEnd.kind = "ask" /\ tasks[i].onEnd.step = currentStep

\* C28: a transcript's value is stored only when the question of the current
\* step has been asked: not while the greeting or acknowledgment whose
\* callback asks that question is still in flight.
C28_StoredOnlyForAskedQuestion ==
    [][\A t \in Transcripts :
          (/\ ProcessResponse(t)
           /\ FormSelected
           /\ ~IsTriageState(aiState)
           /\ collectedData' # collectedData) =>
              ~QuestionStillToCome]_vars

\* C29: a step that takes the controller into Speaking ends with no
\* recognition session running.
C29_NoRecognitionWhileSpeaking ==
    [][(aiState # "speaking" /\ aiState' = "speaking") => ~isListening']_vars

\* C30: every save request of a session with a pre-selected form carries the
\* id of that form as scheme, the collected data as fields, and as mobile and
\* aadhar the collected values, or the empty string where there is none.
C30_SaveCarriesSchemeAndData ==
    (PreSelected /\ NoClassification) =>
        \A i \in DOMAIN saved :
            /\ saved[i].scheme = schemeId
            /\ saved[i].fields = collectedData
            /\ saved[i].mobile = GetOrEmpty(collectedData, "mobile")
            /\ saved[i].aadhar = GetOrEmpty(collectedData, "aadhar")

=============================================================================
